---- MODULE Spec2Model ----
(***************************************************************************)
(* Model of xmlem's arena-backed element tree (src/src/element.rs).        *)
(* The Document owns three tables keyed by DocKey: items, attrs, parents.  *)
(* Element methods mutate and read them; the caller holds the typed        *)
(* identities (Element, Text, CDataSection, Comment) the methods return.   *)
(***************************************************************************)
EXTENDS Integers, Sequences, FiniteSets, TLC

\* ---------------------------------------------------------------- bounds
MaxKeys == 3          \* keys the arena may allocate in the full model
MaxAttrKeys == 2      \* keys the arena may allocate in the attribute model
MaxReadKeys == 3      \* keys the arena may allocate in the read model
MaxSibKeys == 4       \* keys the arena may allocate in the sibling model
MaxWalkKeys == 5      \* keys the arena may allocate in the traversal model
MaxQueryKeys == 4     \* keys the arena may allocate in the query model
MaxPullKeys == 4      \* keys the arena may allocate in the fair traversal model

\* ------------------------------------------------------------ input sets
ElemNames == {"A"}
Texts == {"t"}
AttrNames == {"a", "b"}
AttrValues == {"1", "2"}
\* attribute tables handed to append_new_element (IndexMap: names unique)
TreeAttrNames == {"a"}      \* set_attribute inputs of the structural model
TreeAttrValues == {"3"}
NewAttrs == { <<>>, << <<"b", "2">>, <<"a", "1">> >> }

VARIABLES
  items,    \* Document.items: key -> ItemValue
  attrs,    \* Document.attrs: key -> IndexMap<String, String> (sequence of <<name, value>>)
  parents,  \* Document.parents: key -> Element
  nextKey,  \* next key the arena allocates
  issued,   \* identities returned to the caller: key -> variant
  ret,      \* the last call and what it returned
  prev,     \* the call before it, when that was a successful append
  hist,     \* per element: attribute table at creation, set_attribute history
  walk      \* the iterator Element::walk returned and what it has yielded

vars == <<items, attrs, parents, nextKey, issued, ret, prev, hist, walk>>

\* ------------------------------------------------------------ data model
EmptyMap == [x \in {} |-> x]

RootKey == 0

Put(m, k, v) == [x \in DOMAIN m \cup {k} |-> IF x = k THEN v ELSE m[x]]

Drop(m, k) == [x \in DOMAIN m \ {k} |-> m[x]]

\* Node: typed identity wrapping a key; equality is variant + key
Node(kind, key) == [kind |-> kind, key |-> key]

ElementValue(name, children) == [kind |-> "Element", data |-> name, children |-> children]

LeafValue(kind, text) == [kind |-> kind, data |-> text, children |-> <<>>]

\* Option<T>
None == <<>>
Some(x) == <<x>>

\* a call record: the method, its receiver, its Node argument (for an append:
\* the node it created), its string argument, whether it returned (FALSE: it
\* panicked), the receiver's children before the call, the value returned
NoCall == [op |-> "none", self |-> RootKey, node |-> Node("Element", RootKey),
           arg |-> "", ok |-> TRUE, pre |-> <<>>, val |-> <<>>]

Call(op, self, node, ok, pre, val) ==
  [op |-> op, self |-> self, node |-> node, arg |-> "", ok |-> ok, pre |-> pre, val |-> val]

\* history of an element's attribute table: the table it was created with,
\* whether set_attribute was ever called, names in first-insertion order and
\* the last value written per name
NoHist(at) ==
  [init |-> at, set |-> FALSE,
   order |-> [i \in 1..Len(at) |-> at[i][1]],
   last |-> [n \in {at[i][1] : i \in 1..Len(at)} |->
               (CHOOSE p \in {at[i] : i \in 1..Len(at)} : p[1] = n)[2]]]

ReadOps == {"parent", "children", "name", "attributes", "attribute",
            "next_sibling_element", "prev_sibling_element"}

\* no iterator alive
NoWalk == [phase |-> "idle", root |-> RootKey, frames |-> <<>>, out |-> <<>>]

AppendOps == {"append_new_element", "append_text", "append_cdata", "append_comment"}

\* the arena hands out a key it never handed out before
NewKey == nextKey

\* identities the caller holds
Elements == {k \in DOMAIN issued : issued[k] = "Element"}
Nodes == {Node(issued[k], k) : k \in DOMAIN issued}

Live(k) == k \in DOMAIN items

Init ==
  /\ items = (RootKey :> ElementValue("root", <<>>))
  /\ attrs = EmptyMap
  /\ parents = EmptyMap
  /\ nextKey = 1
  /\ issued = (RootKey :> "Element")
  /\ ret = NoCall
  /\ prev = NoCall
  /\ hist = (RootKey :> NoHist(<<>>))
  /\ walk = NoWalk

\* ------------------------------------------------------- IndexMap helpers
IndexOfName(m, n) ==
  IF \E i \in 1..Len(m) : m[i][1] = n
    THEN CHOOSE i \in 1..Len(m) : m[i][1] = n
    ELSE 0

\* IndexMap::get
IndexMapGet(m, n) ==
  IF IndexOfName(m, n) = 0 THEN None ELSE Some(m[IndexOfName(m, n)][2])

\* IndexMap::insert: an existing name keeps its position, a new one goes last
IndexMapInsert(m, n, v) ==
  IF IndexOfName(m, n) = 0
    THEN Append(m, <<n, v>>)
    ELSE [m EXCEPT ![IndexOfName(m, n)] = <<n, v>>]

\* ----------------------------------------------------------- Vec helpers
\* children.iter().position(|x| x == &node): first index, 0 when absent
Position(children, node) ==
  IF \E i \in 1..Len(children) : children[i] = node
    THEN CHOOSE i \in 1..Len(children) :
           /\ children[i] = node
           /\ \A j \in 1..(i - 1) : children[j] # node
    ELSE 0

\* Vec::remove(i)
VecRemove(children, i) ==
  [j \in 1..(Len(children) - 1) |-> IF j < i THEN children[j] ELSE children[j + 1]]

PushChild(its, self, node) ==
  [its EXCEPT ![self].children = Append(@, node)]

PrevOf(r) == IF r.op \in AppendOps /\ r.ok THEN [r EXCEPT !.val = <<>>] ELSE NoCall

\* --------------------------------------------------------------- mutation
\* document.parents.insert(new_key, self)
RecordParent_Forgotten(new_key, self) == parents

RecordParent(new_key, self) == Put(parents, new_key, self)

\* Some(i): element.children.remove(i), then document.items.remove(node.as_key())
RemoveFound_Cascade(self, node, i) ==
  LET pruned == [items EXCEPT ![self].children = VecRemove(@, i)]
      gone == {node.key} \cup {k \in DOMAIN items : k \in DOMAIN parents /\ parents[k] = node.key}
  IN [k \in DOMAIN items \ gone |-> pruned[k]]

RemoveFound_KeepsEntry(self, node, i) == Drop(items, node.key)

RemoveFound_KeepsItem(self, node, i) ==
  [items EXCEPT ![self].children = VecRemove(@, i)]

RemoveFound(self, node, i) ==
  Drop([items EXCEPT ![self].children = VecRemove(@, i)], node.key)

\* None => return
RemoveNotFound_NoReturn(self, node) == Drop(items, node.key)

RemoveNotFound(self, node) == items

\* the table set_attribute writes into: created empty when absent
TableFor_AlwaysReset(self) == <<>>

TableFor(self) == IF self \in DOMAIN attrs THEN attrs[self] ELSE <<>>

append_new_element(self, name, at) ==
  LET new_key == NewKey
      node == Node("Element", new_key)
      inserted == Put(items, new_key, ElementValue(name, <<>>))
  IN /\ ret.ok
     /\ nextKey' = nextKey + 1
     /\ attrs' = Put(attrs, new_key, at)
     /\ parents' = RecordParent(new_key, self)
     /\ hist' = Put(hist, new_key, NoHist(at))
     /\ prev' = PrevOf(ret)
     /\ UNCHANGED walk
     /\ IF Live(self)
          THEN /\ items' = PushChild(inserted, self, node)
               /\ issued' = Put(issued, new_key, "Element")
               /\ ret' = Call("append_new_element", self, node, TRUE,
                              items[self].children, Some(new_key))
          ELSE \* items.get_mut(self.0).unwrap() panics after the inserts
               /\ items' = inserted
               /\ issued' = issued
               /\ ret' = Call("append_new_element", self, node, FALSE, <<>>, None)

AppendLeaf(op, kind, self, text) ==
  LET new_key == NewKey
      node == Node(kind, new_key)
      inserted == Put(items, new_key, LeafValue(kind, text))
  IN /\ ret.ok
     /\ nextKey' = nextKey + 1
     /\ parents' = RecordParent(new_key, self)
     /\ prev' = PrevOf(ret)
     /\ UNCHANGED <<attrs, hist, walk>>
     /\ IF Live(self)
          THEN /\ items' = PushChild(inserted, self, node)
               /\ issued' = Put(issued, new_key, kind)
               /\ ret' = Call(op, self, node, TRUE, items[self].children, Some(new_key))
          ELSE /\ items' = inserted
               /\ issued' = issued
               /\ ret' = Call(op, self, node, FALSE, <<>>, None)

append_text(self, text) == AppendLeaf("append_text", "Text", self, text)

append_cdata(self, text) == AppendLeaf("append_cdata", "CData", self, text)

append_comment(self, text) == AppendLeaf("append_comment", "Comment", self, text)

remove_child(self, node) ==
  /\ ret.ok
  /\ prev' = PrevOf(ret)
  /\ UNCHANGED <<attrs, parents, nextKey, issued, hist, walk>>
  /\ IF ~Live(self)
       THEN \* items.get_mut(self.0).unwrap() panics
            /\ items' = items
            /\ ret' = Call("remove_child", self, node, FALSE, <<>>, None)
       ELSE LET children == items[self].children
                i == Position(children, node)
            IN /\ ret' = Call("remove_child", self, node, TRUE, children, None)
               /\ IF i = 0
                    THEN items' = RemoveNotFound(self, node)
                    ELSE items' = RemoveFound(self, node, i)

set_attribute(self, name, value) ==
  LET table == TableFor(self)
      h == hist[self]
  IN /\ ret.ok
     /\ attrs' = Put(attrs, self, IndexMapInsert(table, name, value))
     /\ hist' = [hist EXCEPT ![self] =
                   [init |-> h.init, set |-> TRUE,
                    order |-> IF \E i \in 1..Len(h.order) : h.order[i] = name
                                THEN h.order ELSE Append(h.order, name),
                    last |-> Put(h.last, name, value)]]
     /\ prev' = PrevOf(ret)
     /\ ret' = [Call("set_attribute", self, Node("Element", self), TRUE, <<>>, None)
                 EXCEPT !.arg = name]
     /\ UNCHANGED <<items, parents, nextKey, issued, walk>>

\* ------------------------------------------------------------------ reads
\* what a read returns: ok = FALSE is a panic
Ok(v) == [ok |-> TRUE, val |-> v]
Panic == [ok |-> FALSE, val |-> <<>>]

parent(self) ==
  IF self \in DOMAIN parents THEN Some(parents[self]) ELSE None

children(self) ==
  IF Live(self) THEN Ok(items[self].children) ELSE Panic

name(self) ==
  IF Live(self) THEN Ok(Some(items[self].data)) ELSE Panic

EMPTY_INDEXMAP == <<>>

attributes_Shared(self) == EMPTY_INDEXMAP

attributes(self) ==
  IF self \in DOMAIN attrs THEN attrs[self] ELSE EMPTY_INDEXMAP

attribute(self, n) == IndexMapGet(attributes(self), n)

\* Node::as_element
IsElement(node) == node.kind = "Element"

NextScan_StopsAtNonElement(ch, index) ==
  IF index > Len(ch) THEN None
  ELSE IF IsElement(ch[index]) THEN Some(ch[index].key)
  ELSE None

NextScan_Last(ch, index) ==
  LET J == {j \in index..Len(ch) : IsElement(ch[j])}
  IN IF J = {} THEN None
     ELSE Some(ch[CHOOSE j \in J : \A k \in J : k <= j].key)

\* while index < children.len() { ... index += 1 }   (index is 1-based here)
RECURSIVE NextScan(_, _)
NextScan(ch, index) ==
  IF index > Len(ch) THEN None
  ELSE IF IsElement(ch[index]) THEN Some(ch[index].key)
  ELSE NextScan(ch, index + 1)

PrevScan_StopsAtNonElement(ch, index) ==
  IF IsElement(ch[index - 1]) THEN Some(ch[index - 1].key) ELSE None

\* loop { index -= 1; ...; if index == 0 { return None } }   (1-based here)
RECURSIVE PrevScan(_, _)
PrevScan(ch, index) ==
  LET j == index - 1
  IN IF IsElement(ch[j]) THEN Some(ch[j].key)
     ELSE IF j = 1 THEN None
     ELSE PrevScan(ch, j)

next_sibling_element(self) ==
  IF parent(self) = None THEN Ok(None)
  ELSE LET ch == children(parent(self)[1])
       IN IF ~ch.ok THEN Panic
          ELSE LET index == Position(ch.val, Node("Element", self))
               IN IF index = 0 THEN Panic     \* expect("element has to be child of parent")
                  ELSE Ok(NextScan(ch.val, index + 1))

prev_sibling_element(self) ==
  IF parent(self) = None THEN Ok(None)
  ELSE LET ch == children(parent(self)[1])
       IN IF ~ch.ok THEN Panic
          ELSE LET index == Position(ch.val, Node("Element", self))
               IN IF index = 0 THEN Panic
                  ELSE IF index = 1 THEN Ok(None)
                  ELSE Ok(PrevScan(ch.val, index))

Read(op, self, r) ==
  /\ ret.ok
  /\ ret' = Call(op, self, Node("Element", self), r.ok, <<>>, r.val)
  /\ prev' = PrevOf(ret)
  /\ UNCHANGED <<items, attrs, parents, nextKey, issued, hist, walk>>

ReadParent(self) == Read("parent", self, Ok(parent(self)))

ReadChildren(self) == Read("children", self, children(self))

ReadName(self) == Read("name", self, name(self))

ReadAttributes(self) == Read("attributes", self, Ok(attributes(self)))

ReadAttribute(self, n) ==
  /\ ret.ok
  /\ ret' = [Call("attribute", self, Node("Element", self), TRUE, <<>>, attribute(self, n))
              EXCEPT !.arg = n]
  /\ prev' = PrevOf(ret)
  /\ UNCHANGED <<items, attrs, parents, nextKey, issued, hist, walk>>

ReadNextSibling(self) == Read("next_sibling_element", self, next_sibling_element(self))

ReadPrevSibling(self) == Read("prev_sibling_element", self, prev_sibling_element(self))

\* -------------------------------------------------------------- traversal
\* walk_tree(doc, element) captures: let children = element.children(doc).to_vec();
\* let mut index = 0; the nested iterator last_child is the next frame
NewFrame(element) == [children |-> items[element].children, index |-> 1]

Scan_NoDescend(f) ==
  LET rest == {j \in f.index..Len(f.children) : IsElement(f.children[j])}
      i == CHOOSE j \in rest : \A k \in rest : j <= k
  IN IF rest = {}
       THEN [frames |-> << [f EXCEPT !.index = Len(f.children) + 1] >>, ok |-> TRUE, val |-> None]
       ELSE [frames |-> << [f EXCEPT !.index = i + 1] >>, ok |-> TRUE,
             val |-> Some(f.children[i].key)]

Scan_NoAdvance(f) ==
  LET rest == {j \in f.index..Len(f.children) : IsElement(f.children[j])}
      i == CHOOSE j \in rest : \A k \in rest : j <= k
  IN IF rest = {}
       THEN [frames |-> << [f EXCEPT !.index = Len(f.children) + 1] >>, ok |-> TRUE, val |-> None]
       ELSE [frames |-> << [f EXCEPT !.index = i], NewFrame(f.children[i].key) >>, ok |-> TRUE,
             val |-> Some(f.children[i].key)]

\* the loop body once last_child is None: skip non-elements, yield the next
\* element and open its iterator, or end
RECURSIVE Scan(_)
Scan(f) ==
  IF f.index > Len(f.children)
    THEN [frames |-> <<f>>, ok |-> TRUE, val |-> None]
    ELSE LET child == f.children[f.index]
             g == [f EXCEPT !.index = @ + 1]
         IN IF IsElement(child)
              THEN IF Live(child.key)
                     THEN [frames |-> <<g, NewFrame(child.key)>>, ok |-> TRUE,
                           val |-> Some(child.key)]
                     ELSE [frames |-> <<g>>, ok |-> FALSE, val |-> None]
              ELSE Scan(g)

\* one call of the from_fn closure: ask last_child first, then scan
RECURSIVE IterNext(_)
IterNext(frames) ==
  LET f == Head(frames)
  IN IF Len(frames) > 1
       THEN LET r == IterNext(Tail(frames))
            IN IF ~r.ok \/ r.val # None
                 THEN [frames |-> <<f>> \o r.frames, ok |-> r.ok, val |-> r.val]
                 ELSE Scan(f)
       ELSE Scan(f)

\* Iterator::find over a fresh walk
RECURSIVE Find(_, _)
\* Iterator::filter(..).collect() over a fresh walk
RECURSIVE Collect(_, _)

\* Selector::matches(doc, element): the selectors tried
Selectors == {"none", "third", "odd"}

matches(selector, x) ==
  CASE selector = "none" -> FALSE
    [] selector = "third" -> x = 3
    [] selector = "odd" -> x % 2 = 1

Collect(frames, selector) ==
  LET r == IterNext(frames)
  IN IF ~r.ok THEN Panic
     ELSE IF r.val = None THEN Ok(<<>>)
     ELSE LET rest == Collect(r.frames, selector)
          IN IF ~rest.ok THEN Panic
             ELSE IF matches(selector, r.val[1]) THEN Ok(r.val \o rest.val)
             ELSE rest

Find_Last(frames, selector) ==
  LET c == Collect(frames, selector)
  IN IF ~c.ok THEN Panic
     ELSE IF c.val = <<>> THEN Ok(None)
     ELSE Ok(Some(c.val[Len(c.val)]))

Find(frames, selector) ==
  LET r == IterNext(frames)
  IN IF ~r.ok THEN Panic
     ELSE IF r.val = None THEN Ok(None)
     ELSE IF matches(selector, r.val[1]) THEN Ok(r.val)
     ELSE Find(r.frames, selector)

query_selector(self, selector) ==
  IF Live(self) THEN Find(<<NewFrame(self)>>, selector) ELSE Panic

query_selector_all(self, selector) ==
  IF Live(self) THEN Collect(<<NewFrame(self)>>, selector) ELSE Panic

\* Element::walk: builds the iterator, children(doc) panics on a removed element
StartWalk(self) ==
  /\ ret.ok
  /\ walk.phase = "idle"
  /\ prev' = PrevOf(ret)
  /\ IF Live(self)
       THEN /\ walk' = [phase |-> "active", root |-> self,
                        frames |-> <<NewFrame(self)>>, out |-> <<>>]
            /\ ret' = Call("walk", self, Node("Element", self), TRUE, <<>>, None)
       ELSE /\ walk' = walk
            /\ ret' = Call("walk", self, Node("Element", self), FALSE, <<>>, None)
  /\ UNCHANGED <<items, attrs, parents, nextKey, issued, hist>>

\* Iterator::next on the iterator walk returned
WalkNext ==
  /\ ret.ok
  /\ walk.phase = "active"
  /\ Len(walk.out) < nextKey
  /\ LET r == IterNext(walk.frames)
     IN /\ walk' = [walk EXCEPT
                      !.frames = r.frames,
                      !.out = IF r.val = None THEN @ ELSE Append(@, r.val[1]),
                      !.phase = IF r.ok /\ r.val = None THEN "done" ELSE "active"]
        /\ ret' = Call("next", walk.root, Node("Element", walk.root), r.ok, <<>>, r.val)
  /\ prev' = PrevOf(ret)
  /\ UNCHANGED <<items, attrs, parents, nextKey, issued, hist>>

\* the exhausted iterator goes out of scope, ending its borrow of the document
DropWalk ==
  /\ ret.ok
  /\ walk.phase = "done"
  /\ walk' = NoWalk
  /\ UNCHANGED <<items, attrs, parents, nextKey, issued, ret, prev, hist>>

QuerySelector(self, selector) ==
  /\ ret.ok
  /\ LET r == query_selector(self, selector)
     IN ret' = [Call("query_selector", self, Node("Element", self), r.ok, <<>>, r.val)
                 EXCEPT !.arg = selector]
  /\ prev' = PrevOf(ret)
  /\ UNCHANGED <<items, attrs, parents, nextKey, issued, hist, walk>>

QuerySelectorAll(self, selector) ==
  /\ ret.ok
  /\ LET r == query_selector_all(self, selector)
     IN ret' = [Call("query_selector_all", self, Node("Element", self), r.ok, <<>>, r.val)
                 EXCEPT !.arg = selector]
  /\ prev' = PrevOf(ret)
  /\ UNCHANGED <<items, attrs, parents, nextKey, issued, hist, walk>>

\* ---------------------------------------------------------- specification
AppendNewElement == \E self \in Elements, n \in ElemNames, at \in NewAttrs :
                      append_new_element(self, n, at)
AppendText == \E self \in Elements, t \in Texts : append_text(self, t)
AppendCData == \E self \in Elements, t \in Texts : append_cdata(self, t)
AppendComment == \E self \in Elements, t \in Texts : append_comment(self, t)
RemoveChild == \E self \in Elements, node \in Nodes : remove_child(self, node)
SetAttribute == \E self \in Elements, n \in AttrNames, v \in AttrValues :
                  set_attribute(self, n, v)
SetAttributeTree == \E self \in Elements, n \in TreeAttrNames, v \in TreeAttrValues :
                      set_attribute(self, n, v)
GetParent == \E self \in Elements : ReadParent(self)
GetChildren == \E self \in Elements : ReadChildren(self)
GetName == \E self \in Elements : ReadName(self)
GetAttributes == \E self \in Elements : ReadAttributes(self)
GetAttribute == \E self \in Elements, n \in AttrNames : ReadAttribute(self, n)
NextSibling == \E self \in Elements : ReadNextSibling(self)
PrevSibling == \E self \in Elements : ReadPrevSibling(self)

\* structural model: the tree-building and tree-pruning calls
NextTree ==
  \/ nextKey < MaxKeys /\ AppendNewElement
  \/ nextKey < MaxKeys /\ AppendText
  \/ nextKey < MaxKeys /\ AppendCData
  \/ nextKey < MaxKeys /\ AppendComment
  \/ RemoveChild
  \/ SetAttributeTree

Spec == Init /\ [][NextTree]_vars

\* attribute model: a small tree, every attribute call and read
NextAttr ==
  \/ nextKey < MaxAttrKeys /\ AppendNewElement
  \/ SetAttribute
  \/ GetAttributes
  \/ GetAttribute

SpecAttr == Init /\ [][NextAttr]_vars

\* read model: a small tree, every read accessor
NextRead ==
  \/ nextKey < MaxReadKeys /\ AppendNewElement
  \/ nextKey < MaxReadKeys /\ AppendText
  \/ RemoveChild
  \/ GetParent
  \/ GetChildren
  \/ GetName
  \/ GetAttributes
  \/ GetAttribute
  \/ NextSibling
  \/ PrevSibling

SpecRead == Init /\ [][NextRead]_vars

\* sibling model: elements and non-elements side by side, sibling navigation
AppendPlainElement == \E self \in Elements, n \in ElemNames :
                        append_new_element(self, n, <<>>)

NextSib ==
  \/ nextKey < MaxSibKeys /\ AppendPlainElement
  \/ nextKey < MaxSibKeys /\ AppendText
  \/ nextKey < MaxSibKeys /\ AppendComment
  \/ RemoveChild
  \/ NextSibling
  \/ PrevSibling

SpecSib == Init /\ [][NextSib]_vars

\* traversal model: the tree changes only while no iterator borrows the
\* document (walk returns an iterator bound to &'d Document)
Walk == \E self \in Elements : StartWalk(self)
Query == \E self \in Elements, sel \in Selectors : QuerySelector(self, sel)
QueryAll == \E self \in Elements, sel \in Selectors : QuerySelectorAll(self, sel)

\* remove_child with a node the receiver lists
RemoveListedChild == \E self \in Elements \cap DOMAIN items :
                       \E i \in 1..Len(items[self].children) :
                         remove_child(self, items[self].children[i])

NextWalk ==
  \/ walk.phase = "idle" /\ nextKey < MaxWalkKeys /\ AppendPlainElement
  \/ walk.phase = "idle" /\ nextKey < MaxWalkKeys /\ AppendText
  \/ walk.phase = "idle" /\ RemoveListedChild
  \/ Walk
  \/ WalkNext
  \/ DropWalk

SpecWalk == Init /\ [][NextWalk]_vars

\* query model: selector queries over the trees the appends and removals build
NextQuery ==
  \/ nextKey < MaxQueryKeys /\ AppendPlainElement
  \/ nextKey < MaxQueryKeys /\ AppendText
  \/ RemoveChild
  \/ Query
  \/ QueryAll

SpecQuery == Init /\ [][NextQuery]_vars

\* the same model on a smaller arena, where the caller keeps pulling from the
\* iterator it holds
NextPull ==
  \/ walk.phase = "idle" /\ nextKey < MaxPullKeys /\ AppendPlainElement
  \/ walk.phase = "idle" /\ nextKey < MaxPullKeys /\ AppendText
  \/ walk.phase = "idle" /\ RemoveChild
  \/ Walk
  \/ WalkNext
  \/ DropWalk

FairSpecPull == Init /\ [][NextPull]_vars /\ WF_vars(WalkNext)
\* ------------------------------------------------------------- properties
Count(seq, x) == Cardinality({i \in 1..Len(seq) : seq[i] = x})

ChildKeys(k) == {items[k].children[i].key : i \in 1..Len(items[k].children)}

\* keys reachable from the root through children lists
RECURSIVE Closure(_)
Closure(S) ==
  LET T == S \cup UNION {ChildKeys(k) : k \in S \cap DOMAIN items}
  IN IF T = S THEN S ELSE Closure(T)

InTree == Closure({RootKey})

\* C1: every node in the children list of an element present in items has
\* that element as its parents entry.
C1_ChildHasParent ==
  \A P \in DOMAIN items : \A K \in ChildKeys(P) :
    K \in DOMAIN parents /\ parents[K] = P

\* an append on a non-root element returned and its node is in the list
C1_Witness ==
  /\ ret.op \in AppendOps /\ ret.ok
  /\ ret.self # RootKey
  /\ ret.node.key \in ChildKeys(ret.self)

\* C2: no children list of an element present in items holds a key that is
\* absent from items.
C2_NoDanglingChild ==
  \A P \in DOMAIN items : ChildKeys(P) \subseteq DOMAIN items

\* a child was removed from a list that still holds another child
C2_Witness ==
  /\ ret.op = "remove_child" /\ ret.ok /\ ~Live(ret.node.key)
  /\ Live(ret.self) /\ ChildKeys(ret.self) # {}
  /\ Len(ret.pre) = Len(items[ret.self].children) + 1

\* C3: a node returned by an append on P is the last child of P right after
\* the call with the earlier children in their order, and as long as it has
\* not been removed it occurs exactly once in P.children() and in no other
\* element's children list.
C3_AppendedOnce ==
  /\ (ret.op \in AppendOps /\ ret.ok) =>
        items[ret.self].children = Append(ret.pre, ret.node)
  /\ \A C \in (DOMAIN items \cap DOMAIN issued) \ {RootKey} :
       LET P == parents[C]
           node == Node(issued[C], C)
       IN /\ children(P).ok
          /\ Count(children(P).val, node) = 1
          /\ \A Q \in DOMAIN items \ {P} : Count(items[Q].children, node) = 0

\* C4: every key present in items is the root or reachable from the root
\* through children lists.
C4_NoLeakedItem ==
  ret.ok => DOMAIN items \subseteq InTree

\* C5: an append on P immediately followed by remove_child(P, returned node)
\* restores P.children() and leaves the node's key absent from items.
C5_AppendRemoveRoundTrip ==
  ( /\ ret.op = "remove_child" /\ ret.ok
    /\ prev.op \in AppendOps
    /\ prev.self = ret.self /\ prev.node = ret.node )
  => /\ children(ret.self).ok
     /\ children(ret.self).val = prev.pre
     /\ ~Live(ret.node.key)

\* the round trip happened on an element that already had a child
C5_Witness ==
  /\ ret.op = "remove_child" /\ ret.ok
  /\ prev.op \in AppendOps
  /\ prev.self = ret.self /\ prev.node = ret.node
  /\ prev.pre # <<>>

\* C6: every read on an element that remove_child removed fails fatally.
C6_RemovedReadsFail ==
  (ret.op \in ReadOps /\ ~Live(ret.self)) => ~ret.ok

\* C7: remove_child(P, N) with N not in P's children returns without
\* failing and leaves items, attrs and parents unchanged.
C7_RemoveAbsentIsNoop ==
  [][ ( /\ ret'.op = "remove_child"
        /\ Live(ret'.self)
        /\ Position(items[ret'.self].children, ret'.node) = 0 )
      => (ret'.ok /\ UNCHANGED <<items, attrs, parents>>) ]_vars

\* remove_child was called with a live child of a different element
C7_Witness ==
  /\ ret.op = "remove_child" /\ ret.ok
  /\ Position(ret.pre, ret.node) = 0
  /\ Live(ret.node.key)
  /\ ret.node.key \in DOMAIN parents
  /\ parents[ret.node.key] # ret.self
  /\ Live(parents[ret.node.key])

\* C8: every element present in items has no parent or a parent present in
\* items whose children list contains it, so sibling navigation never panics.
C8_ParentResolvable ==
  ret.ok =>
    \A E \in DOMAIN items \cap Elements :
      /\ \/ parent(E) = None
         \/ /\ Live(parent(E)[1])
            /\ Position(items[parent(E)[1]].children, Node("Element", E)) > 0
      /\ next_sibling_element(E).ok
      /\ prev_sibling_element(E).ok

Names(table) == [i \in 1..Len(table) |-> table[i][1]]

\* C9: once set_attribute was called on an element its table holds each name
\* once, in first-insertion order, with the value of the latest write.
C9_LastWriteWinsInOrder ==
  \A e \in Elements : hist[e].set =>
    LET table == attributes(e)
    IN /\ Names(table) = hist[e].order
       /\ \A i, j \in 1..Len(table) : table[i][1] = table[j][1] => i = j
       /\ \A i \in 1..Len(table) : table[i][2] = hist[e].last[table[i][1]]
       /\ \A n \in AttrNames :
            attribute(e, n) = IF n \in DOMAIN hist[e].last THEN Some(hist[e].last[n]) ELSE None

\* the last call overwrote "a", which was inserted before "b"
C9_Witness ==
  /\ ret.op = "set_attribute" /\ ret.arg = "a"
  /\ hist[ret.self].init = <<>>
  /\ attributes(ret.self) = << <<"a", "2">>, <<"b", "2">> >>

\* C10 as stated: an element on which set_attribute was never called has an
\* empty attribute table, however it was created.
C10_EmptyUntilSet ==
  \A e \in Elements : ~hist[e].set =>
    /\ attributes(e) = <<>>
    /\ \A n \in AttrNames : attribute(e, n) = None

\* C10 amended: a read of the attributes of an element on which set_attribute
\* was never called returns the table the element was created with and
\* changes neither items, attrs nor parents.
C10_UnsetReadsCreationTable ==
  [][ (ret'.op \in {"attributes", "attribute"} /\ ~hist[ret'.self].set)
      => /\ UNCHANGED <<items, attrs, parents>>
         /\ ret'.ok
         /\ ret'.op = "attributes" => ret'.val = hist[ret'.self].init
         /\ ret'.op = "attribute" => ret'.val = IndexMapGet(hist[ret'.self].init, ret'.arg) ]_vars

\* attribute(name) returned None for the root, which never had a table
C10_Witness ==
  /\ ret.op = "attribute" /\ ret.self = RootKey
  /\ ~hist[RootKey].set
  /\ RootKey \notin DOMAIN attrs
  /\ ret.val = None
\* position of element E in the children list of its recorded parent, 0 when
\* the parent is absent from items or does not list E
SiblingIndex(E) ==
  IF E \in DOMAIN parents /\ Live(parents[E])
    THEN Position(items[parents[E]].children, Node("Element", E))
    ELSE 0

Siblings(E) == items[parents[E]].children

Least(J) == CHOOSE j \in J : \A k \in J : j <= k

Greatest(J) == CHOOSE j \in J : \A k \in J : k <= j

\* the element at the smallest index after E's, None when there is none
NearestAfter(E) ==
  LET J == {j \in (SiblingIndex(E) + 1)..Len(Siblings(E)) : Siblings(E)[j].kind = "Element"}
  IN IF J = {} THEN None ELSE Some(Siblings(E)[Least(J)].key)

\* the element at the largest index before E's, None when there is none
NearestBefore(E) ==
  LET J == {j \in 1..(SiblingIndex(E) - 1) : Siblings(E)[j].kind = "Element"}
  IN IF J = {} THEN None ELSE Some(Siblings(E)[Greatest(J)].key)

\* C13: next_sibling_element(E) returns None when E has no parents entry and
\* otherwise the element at the smallest index after E's position in its
\* parent's children list, None when only non-elements follow.
C13_NextSiblingIsNearestAfter ==
  (ret.op = "next_sibling_element") =>
    /\ ret.self \notin DOMAIN parents => (ret.ok /\ ret.val = None)
    /\ SiblingIndex(ret.self) > 0 => (ret.ok /\ ret.val = NearestAfter(ret.self))

\* next_sibling_element skipped a non-element and returned the element after it
C13_Witness ==
  /\ ret.op = "next_sibling_element" /\ ret.ok
  /\ SiblingIndex(ret.self) > 0
  /\ ret.val # None
  /\ Siblings(ret.self)[SiblingIndex(ret.self) + 1].kind # "Element"

\* C14: prev_sibling_element(E) returns None when E has no parents entry and
\* otherwise the element at the largest index before E's position in its
\* parent's children list, None when E is first or only non-elements precede.
C14_PrevSiblingIsNearestBefore ==
  (ret.op = "prev_sibling_element") =>
    /\ ret.self \notin DOMAIN parents => (ret.ok /\ ret.val = None)
    /\ SiblingIndex(ret.self) > 0 => (ret.ok /\ ret.val = NearestBefore(ret.self))

\* prev_sibling_element skipped a non-element and returned the element before it
C14_Witness ==
  /\ ret.op = "prev_sibling_element" /\ ret.ok
  /\ SiblingIndex(ret.self) > 2
  /\ ret.val # None
  /\ Siblings(ret.self)[SiblingIndex(ret.self) - 1].kind # "Element"

\* C19: for elements E and F in the tree, next_sibling_element(E) = Some(F)
\* exactly when prev_sibling_element(F) = Some(E), and then they share a
\* parent, E comes first and only non-elements lie between them.
C19_SiblingsMutuallyInverse ==
  \A E, F \in InTree \cap Elements :
    /\ (next_sibling_element(E) = Ok(Some(F))) <=> (prev_sibling_element(F) = Ok(Some(E)))
    /\ (next_sibling_element(E) = Ok(Some(F))) =>
         /\ parents[E] = parents[F]
         /\ SiblingIndex(E) > 0 /\ SiblingIndex(E) < SiblingIndex(F)
         /\ \A j \in (SiblingIndex(E) + 1)..(SiblingIndex(F) - 1) :
              Siblings(E)[j].kind # "Element"

\* two elements of the tree are siblings with a non-element between them
C19_Witness ==
  \E E, F \in InTree \cap Elements :
    /\ next_sibling_element(E) = Ok(Some(F))
    /\ prev_sibling_element(F) = Ok(Some(E))
    /\ SiblingIndex(F) > SiblingIndex(E) + 1
\* C15: remove_child(P, N) with N in P's children deletes N from P's children
\* list, keeping the order of the rest, and deletes N's key from items; every
\* other items entry, every attrs row and every parents row stays as it was.
C15_RemoveDoesNotCascade ==
  [][ ( /\ ret'.op = "remove_child"
        /\ Live(ret'.self)
        /\ Position(items[ret'.self].children, ret'.node) > 0 )
      => LET P == ret'.self
             N == ret'.node
             i == Position(items[P].children, N)
         IN /\ ret'.ok
            /\ attrs' = attrs
            /\ parents' = parents
            /\ DOMAIN items' = DOMAIN items \ {N.key}
            /\ \A k \in DOMAIN items' \ {P} : items'[k] = items[k]
            /\ items'[P].data = items[P].data
            /\ Len(items'[P].children) = Len(items[P].children) - 1
            /\ \A j \in 1..Len(items'[P].children) :
                 items'[P].children[j] = items[P].children[IF j < i THEN j ELSE j + 1] ]_vars

\* an element with a child of its own was removed and the child's entries stayed
C15_Witness ==
  /\ ret.op = "remove_child" /\ ret.ok
  /\ ~Live(ret.node.key)
  /\ ret.node.key \in DOMAIN attrs
  /\ \E k \in DOMAIN items : k \in DOMAIN parents /\ parents[k] = ret.node.key

\* C17: every key with a row in parents or attrs is present in items, and
\* every element stored as a value in parents is present in items.
C17_NoDanglingRows ==
  ret.ok =>
    /\ \A k \in DOMAIN parents \cup DOMAIN attrs : Live(k)
    /\ \A k \in DOMAIN parents : Live(parents[k])
RECURSIVE ConcatAll(_)
ConcatAll(seqs) == IF seqs = <<>> THEN <<>> ELSE Head(seqs) \o ConcatAll(Tail(seqs))

\* depth-first pre-order of the descendant elements of k, by structural recursion
RECURSIVE PreOrder(_)
PreOrder(k) ==
  LET ch == items[k].children
  IN ConcatAll([i \in 1..Len(ch) |->
                 IF ch[i].kind = "Element" THEN <<ch[i].key>> \o PreOrder(ch[i].key)
                 ELSE <<>>])

IsPrefix(a, b) == Len(a) <= Len(b) /\ \A i \in 1..Len(a) : a[i] = b[i]

DescendantElements(k) == {d \in Closure({k}) \ {k} : d \in DOMAIN items /\ items[d].kind = "Element"}

\* C11: what R.walk() has yielded is always a prefix of the pre-order of R's
\* descendant elements and, once exhausted, the whole of it; R itself and
\* non-element nodes are never yielded.
C11_WalkIsPreOrder ==
  walk.phase # "idle" =>
    /\ IsPrefix(walk.out, PreOrder(walk.root))
    /\ walk.phase = "done" => walk.out = PreOrder(walk.root)
    /\ \A i \in 1..Len(walk.out) :
         walk.out[i] # walk.root /\ issued[walk.out[i]] = "Element"

\* the walk of root -> [A -> [B, C], D] ended having yielded A, B, C, D
C11_Witness ==
  /\ walk.phase = "done" /\ walk.root = RootKey
  /\ Len(walk.out) = 4
  /\ parents[walk.out[1]] = RootKey
  /\ parents[walk.out[2]] = walk.out[1]
  /\ parents[walk.out[3]] = walk.out[1]
  /\ parents[walk.out[4]] = RootKey

\* C16: a walk that is being pulled reaches its end, and by then has yielded
\* every descendant element of its start element exactly once.
C16_WalkTerminates ==
  /\ (walk.phase = "active") ~> (walk.phase = "done")
  /\ [](walk.phase = "done" =>
          \A d \in DescendantElements(walk.root) : Count(walk.out, d) = 1)

\* a walk over a tree that had a removal ended after yielding nested elements
C16_Witness ==
  /\ walk.phase = "done"
  /\ Len(walk.out) >= 2
  /\ parents[walk.out[2]] = walk.out[1]
  /\ \E k \in DOMAIN issued : ~Live(k)
\* everything R.walk() yields when pulled to its end
RECURSIVE Drain(_)
Drain(frames) ==
  LET r == IterNext(frames)
  IN IF ~r.ok \/ r.val = None THEN <<>> ELSE r.val \o Drain(r.frames)

WalkAll(R) == Drain(<<NewFrame(R)>>)

Matching(R, selector) == SelectSeq(WalkAll(R), LAMBDA x : matches(selector, x))

\* C12: query_selector_all(R) is the subsequence of R.walk() that satisfies
\* the predicate, and query_selector(R) is its first element, None when it
\* is empty.
C12_QueriesFilterWalk ==
  /\ (ret.op = "query_selector_all" /\ Live(ret.self)) =>
       (ret.ok /\ ret.val = Matching(ret.self, ret.arg))
  /\ (ret.op = "query_selector" /\ Live(ret.self)) =>
       /\ ret.ok
       /\ ret.val = IF Matching(ret.self, ret.arg) = <<>> THEN None
                     ELSE Some(Head(Matching(ret.self, ret.arg)))

\* query_selector returned the first of two matches, after a non-matching element
C12_Witness ==
  /\ ret.op = "query_selector" /\ ret.ok
  /\ Len(Matching(ret.self, ret.arg)) = 2
  /\ ret.val = Some(Head(Matching(ret.self, ret.arg)))
  /\ Len(WalkAll(ret.self)) = 3
====
